---------------------------- MODULE Spec2Model ----------------------------
(***************************************************************************)
(* A model of pyjsonq's JsonQuery (src/src/pysjonq/parser.py): the fluent  *)
(* query builder over a parsed JSON document.                              *)
(*                                                                         *)
(* JSON values are tagged pairs <<tag, payload>>, so that values of        *)
(* different Python types can be compared:                                 *)
(*   <<"null", 0>>      None (JSON null, and the accessor's "not found")   *)
(*   <<"num", n>>       an int                                             *)
(*   <<"str", s>>       a str                                              *)
(*   <<"list", seq>>    a list                                             *)
(*   <<"dict", f>>      a dict, f a function from its keys to values       *)
(*                                                                         *)
(* A JsonQuery object is a record of its fields.  Python object identity   *)
(* is kept where the code can observe it: the field `alias` says whether   *)
(* __json_content is the very object found in __root_json_content at       *)
(* alias.path, so that list.sort() and list.clear() on the working view    *)
(* reach the root exactly when the code's references coincide.             *)
(***************************************************************************)
EXTENDS Integers, Sequences, FiniteSets, TLC

\* ----------------------------------------------------------------- bounds
\* Operations performed in one run of the lifecycle specification.
MaxOps == 3

\* ----------------------------------------------------------------- values
Null == <<"null", 0>>
Num(n) == <<"num", n>>
Str(x) == <<"str", x>>
List(q) == <<"list", q>>
Dict(f) == <<"dict", f>>

IsNone(v) == v[1] = "null"
IsInt(v) == v[1] = "num"
IsStr(v) == v[1] = "str"
IsList(v) == v[1] = "list"
IsDict(v) == v[1] = "dict"

EmptyFn == [x \in {} |-> Null]

\* dict literal helpers
KV(k, v) == [x \in {k} |-> v]
KV2(k1, v1, k2, v2) == [x \in {k1, k2} |-> IF x = k1 THEN v1 ELSE v2]

\* d[k] = v on a Python dict (insert or overwrite)
DictSet(f, k, v) == [x \in (DOMAIN f) \cup {k} |-> IF x = k THEN v ELSE f[x]]

\* del d[k]
DictDel(f, k) == [x \in (DOMAIN f) \ {k} |-> f[x]]

\* d.get(k)
DictGet(f, k) == IF k \in DOMAIN f THEN f[k] ELSE Null

\* Python's str(value): an int prints its digits, a str is itself, so that
\* str(1) = str("1"); containers print their representation.
PyStr(v) ==
    IF IsInt(v) THEN ToString(v[2])
    ELSE IF IsStr(v) THEN v[2]
    ELSE ToString(v)


\* ------------------------------------------------- external collaborators
\* helper.getNestedValue, helper.deleteNestedValue, helper.makeAlias and
\* query.defaultQueries are imported by parser.py (lines 10-11) and not part
\* of the sources at hand; they follow the accessor contract of the
\* specification.  A path "a.b" is the sequence <<"a", "b">> of its segments.

\* resolve(doc, path, sep): the value at the path, None when it is absent
RECURSIVE getNestedValue(_, _)
getNestedValue(data, node) ==
    IF node = <<>> THEN data
    ELSE IF IsDict(data) /\ Head(node) \in DOMAIN data[2]
         THEN getNestedValue(data[2][Head(node)], Tail(node))
         ELSE Null

\* delete(doc, path, sep): the document with the path removed; on a sequence
\* the path is removed from every element
RECURSIVE deleteNestedValue(_, _)
deleteNestedValue(data, node) ==
    IF node = <<>> THEN data
    ELSE IF IsList(data)
         THEN List([i \in 1..Len(data[2]) |->
                      IF IsDict(data[2][i])
                      THEN deleteNestedValue(data[2][i], node)
                      ELSE data[2][i]])
    ELSE IF IsDict(data) /\ Head(node) \in DOMAIN data[2]
         THEN IF Len(node) = 1
              THEN Dict(DictDel(data[2], Head(node)))
              ELSE Dict(DictSet(data[2], Head(node),
                          deleteNestedValue(data[2][Head(node)], Tail(node))))
    ELSE data

\* splitAlias(pathSpec, sep): an attribute spec is [node, as]; without an
\* "as" part the alias is the last segment of the path
makeAlias(attr) ==
    <<attr.node, IF attr.as # "" THEN attr.as ELSE attr.node[Len(attr.node)]>>

\* predicate(fieldValue, operand) -> bool, by the name of the function: the
\* default equals / not-equals and two caller-supplied macro bodies
ApplyFunc(cf, value, operand) ==
    CASE cf = "eq" -> value = operand
      [] cf = "notEq" -> value # operand
      [] cf = "isInt" -> IsInt(value)
      [] cf = "never" -> FALSE

\* the registry is a dict from operator name to predicate; of the default
\* set the model carries equals and not-equals
defaultQueries == [o \in {"=", "!="} |-> IF o = "=" THEN "eq" ELSE "notEq"]

\* self.__query_map.get(operator), "" standing for None
QueryMapGet(query_map, operator) ==
    IF operator \in DOMAIN query_map THEN query_map[operator] ELSE ""

\* ------------------------------------------------------------- the object
NoAlias == [on |-> FALSE, path |-> <<>>]
RootAlias == [on |-> TRUE, path |-> <<>>]

\* the attributes More() creates by assigning to names no other method reads
NoStray == [queryIndex |-> -1, limitRecords |-> -1, distinctProperty |-> "unset"]

\* JsonQuery.__init__
NewJsonQuery(doc) ==
    [root_json_content |-> doc,
     json_content |-> doc,
     alias |-> RootAlias,
     query_map |-> defaultQueries,
     query_index |-> 0,
     offset_records |-> 0,
     limit_records |-> 0,
     queries |-> <<>>,
     dropped_properties |-> <<>>,
     attributes |-> <<>>,
     distinct_property |-> <<>>,
     stray |-> NoStray]

\* the value v with the value at path p replaced by w
RECURSIVE PutAt(_, _, _)
PutAt(v, p, w) ==
    IF p = <<>> THEN w
    ELSE Dict(DictSet(v[2], Head(p), PutAt(v[2][Head(p)], Tail(p), w)))

\* self.__json_content = <a new object>
Rebind(s, v) == [s EXCEPT !.json_content = v, !.alias = NoAlias]

\* the list object self.__json_content changed in place to v: the root
\* holds the same object when the view is an alias of it
InPlace(s, v) ==
    IF s.alias.on
    THEN [s EXCEPT !.json_content = v,
                   !.root_json_content = PutAt(s.root_json_content, s.alias.path, v)]
    ELSE [s EXCEPT !.json_content = v]

\* what a call gives back: the object after the call and the value returned
\* (Self for the builder, <<"raise", e>> for an exception e)
Self == <<"self", 0>>
Raise(e) == <<"raise", e>>
Raised(r) == r[1] = "raise"
Result(s, r) == [s |-> s, ret |-> r]


\* Python's lst[n:] and lst[:n] for n >= 0
SliceFrom(q, n) == IF n >= Len(q) THEN <<>> ELSE SubSeq(q, n + 1, Len(q))
SliceTo(q, n) == IF n >= Len(q) THEN q ELSE SubSeq(q, 1, n)

\* ------------------------------------------------------ private functions
\* __findInDict, the inner loop (lines 410-421) over the clauses of one
\* group: abort is the early return on an operator the registry lacks
\* (a faulty variant: a clause whose operator the registry lacks counts as
\* false and the evaluation goes on)
RECURSIVE clauseLoopGoesOn(_, _, _, _)
clauseLoopGoesOn(s, value_map, q_list, and_passed) ==
    IF q_list = <<>> THEN [abort |-> FALSE, passed |-> and_passed]
    ELSE LET q == Head(q_list)
             cf == QueryMapGet(s.query_map, q.operator)
             value == getNestedValue(value_map, q.key)
         IN  IF cf = "" \/ IsNone(value)
             THEN clauseLoopGoesOn(s, value_map, Tail(q_list), FALSE)
             ELSE clauseLoopGoesOn(s, value_map, Tail(q_list),
                                   and_passed /\ ApplyFunc(cf, value, q.value))

RECURSIVE clauseLoop(_, _, _, _)
clauseLoop(s, value_map, q_list, and_passed) ==
    IF q_list = <<>> THEN [abort |-> FALSE, passed |-> and_passed]
    ELSE LET q == Head(q_list)
             cf == QueryMapGet(s.query_map, q.operator)
             value == getNestedValue(value_map, q.key)
         IN  IF cf = "" THEN [abort |-> TRUE, passed |-> FALSE]
             ELSE IF IsNone(value)
                  THEN clauseLoop(s, value_map, Tail(q_list), FALSE)
                  ELSE clauseLoop(s, value_map, Tail(q_list),
                                  and_passed /\ ApplyFunc(cf, value, q.value))

\* __findInDict, the outer loop (lines 408-423) over the groups; r is what
\* the inner loop made of the first group
RECURSIVE groupLoop(_, _, _, _)
\* (a faulty variant: the last group decides, or_passed = and_passed)
groupNextLastWins(s, value_map, queries, or_passed, r) ==
    IF r.abort THEN r
    ELSE groupLoop(s, value_map, Tail(queries), r.passed)

groupNext(s, value_map, queries, or_passed, r) ==
    IF r.abort THEN r
    ELSE groupLoop(s, value_map, Tail(queries), or_passed \/ r.passed)

groupLoop(s, value_map, queries, or_passed) ==
    IF queries = <<>> THEN [abort |-> FALSE, passed |-> or_passed]
    ELSE groupNext(s, value_map, queries, or_passed,
                   clauseLoop(s, value_map, Head(queries), TRUE))

\* __findInDict, its end (lines 425-428): the list holding value_map when it
\* passes, else the empty list; the early return gives back result, still
\* empty at that point
findResult(value_map, r) ==
    IF r.abort THEN <<>>
    ELSE IF r.passed THEN <<value_map>> ELSE <<>>

\* __findInDict
findInDict(s, value_map) ==
    findResult(value_map, groupLoop(s, value_map, s.queries, FALSE))

\* __findInList
RECURSIVE findInList(_, _)
findInList(s, value_list) ==
    IF value_list = <<>> THEN <<>>
    ELSE LET v == Head(value_list)
         IN  (IF IsDict(v) THEN findInDict(s, v) ELSE <<>>)
                 \o findInList(s, Tail(value_list))

\* __processQuery
processQuery(s) ==
    IF IsList(s.json_content)
    THEN Rebind(s, List(findInList(s, s.json_content[2])))
    ELSE s

\* (a faulty variant: a mapping without the key is kept, and the values
\* are compared, not their strings)
RECURSIVE distinctLoopByValue(_, _, _, _)
distinctLoopByValue(s, json_content, m, dt) ==
    IF json_content = <<>> THEN dt
    ELSE LET a == Head(json_content)
             value == getNestedValue(a, s.distinct_property)
         IN  IF IsDict(a) /\ value \notin m
             THEN distinctLoopByValue(s, Tail(json_content), m \cup {value}, Append(dt, a))
             ELSE distinctLoopByValue(s, Tail(json_content), m, dt)

\* __distinct, the loop (lines 443-448): m is the set of keys of the dict m
RECURSIVE distinctLoop(_, _, _, _)
distinctLoop(s, json_content, m, dt) ==
    IF json_content = <<>> THEN dt
    ELSE LET a == Head(json_content)
             value == getNestedValue(a, s.distinct_property)
         IN  IF IsDict(a) /\ ~IsNone(value) /\ PyStr(value) \notin m
             THEN distinctLoop(s, Tail(json_content), m \cup {PyStr(value)}, Append(dt, a))
             ELSE distinctLoop(s, Tail(json_content), m, dt)

\* __distinct
distinct(s) ==
    IF IsList(s.json_content)
    THEN Rebind(s, List(distinctLoop(s, s.json_content[2], {}, <<>>)))
    ELSE Rebind(s, List(<<>>))

\* __only, the loop over the attributes (lines 383-389) filling tmap
RECURSIVE attrLoop(_, _, _)
attrLoop(am, attributes, tmap) ==
    IF attributes = <<>> THEN tmap
    ELSE LET na == makeAlias(Head(attributes))
             value == getNestedValue(am, na[1])
         IN  IF IsNone(value)
             THEN attrLoop(am, Tail(attributes), tmap)
             ELSE attrLoop(am, Tail(attributes), DictSet(tmap, na[2], value))

\* (a faulty variant: an empty tmap joins the result too)
onlyRowAlways(tmap) == <<Dict(tmap)>>

\* __only, lines 391-392: tmap joins the result when it holds a key
onlyRow(tmap) == IF DOMAIN tmap # {} THEN <<Dict(tmap)>> ELSE <<>>

\* __only, the loop over the elements (lines 381-392)
RECURSIVE onlyLoop(_, _)
onlyLoop(s, json_content) ==
    IF json_content = <<>> THEN <<>>
    ELSE onlyRow(attrLoop(Head(json_content), s.attributes, EmptyFn))
             \o onlyLoop(s, Tail(json_content))

\* __only
only(s) ==
    IF IsList(s.json_content)
    THEN Rebind(s, List(onlyLoop(s, s.json_content[2])))
    ELSE Rebind(s, List(<<>>))

\* the guarded steps of __prepare, Get, Pluck and __getAggregationValues
ifQueries(s) == IF Len(s.queries) > 0 THEN processQuery(s) ELSE s
ifDistinct(s) == IF s.distinct_property # <<>> THEN distinct(s) ELSE s
ifAttributes(s) == IF Len(s.attributes) > 0 THEN only(s) ELSE s
resetIndex(s) == [s EXCEPT !.query_index = 0]

\* __prepare
prepare(s) == resetIndex(ifAttributes(ifDistinct(ifQueries(s))))

\* __limit
limit(s) ==
    IF IsList(s.json_content)
    THEN IF s.limit_records <= 0 THEN s
         ELSE IF Len(s.json_content[2]) > s.limit_records
              THEN Rebind(s, List(SliceTo(s.json_content[2], s.limit_records)))
              ELSE s
    ELSE s

\* (a faulty variant: the length is compared with the offset, not the limit)
offsetAgainstOffset(s) ==
    IF IsList(s.json_content)
    THEN IF s.offset_records < 0 THEN s
         ELSE IF Len(s.json_content[2]) >= s.offset_records
              THEN Rebind(s, List(SliceFrom(s.json_content[2], s.offset_records)))
              ELSE InPlace(s, List(<<>>))
    ELSE s

\* __offset: the slice is a new list, clear() empties the list in place
offset(s) ==
    IF IsList(s.json_content)
    THEN IF s.offset_records < 0 THEN s
         ELSE IF Len(s.json_content[2]) >= s.limit_records
              THEN Rebind(s, List(SliceFrom(s.json_content[2], s.offset_records)))
              ELSE InPlace(s, List(<<>>))
    ELSE s

\* __drop
RECURSIVE dropLoop(_, _)
dropLoop(s, dropped_properties) ==
    IF dropped_properties = <<>> THEN s
    ELSE dropLoop(Rebind(s, deleteNestedValue(s.json_content, Head(dropped_properties))),
                  Tail(dropped_properties))

drop(s) == dropLoop(s, s.dropped_properties)

ifOffset(s) == IF s.offset_records # 0 THEN offset(s) ELSE s
ifLimit(s) == IF s.limit_records # 0 THEN limit(s) ELSE s
ifDropped(s) == IF Len(s.dropped_properties) # 0 THEN drop(s) ELSE s


\* float(v) of a number and the quotient of Avg
Float(n) == <<"float", n>>
Ratio(n, d) == <<"ratio", <<n, d>>>>

\* (a faulty variant: best effort, a mapping without a number under the
\* property is passed over)
RECURSIVE floatLoopBestEffort(_, _, _)
floatLoopBestEffort(json_list, properties, floats) ==
    IF json_list = <<>> THEN floats
    ELSE LET a == Head(json_list)
         IN  IF IsInt(a)
             THEN IF Len(properties) > 0 THEN <<>>
                  ELSE floatLoopBestEffort(Tail(json_list), properties, Append(floats, a[2]))
             ELSE IF IsDict(a) /\ Len(properties) = 0 THEN <<>>
             ELSE IF IsDict(a) /\ IsInt(DictGet(a[2], properties[1]))
             THEN floatLoopBestEffort(Tail(json_list), properties,
                                      Append(floats, DictGet(a[2], properties[1])[2]))
             ELSE floatLoopBestEffort(Tail(json_list), properties, floats)

\* __getFloatValFromArray, the loop: the early `return []` gives no float
RECURSIVE floatLoop(_, _, _)
floatLoop(json_list, properties, floats) ==
    IF json_list = <<>> THEN floats
    ELSE LET a == Head(json_list)
         IN  IF IsInt(a)
             THEN IF Len(properties) > 0 THEN <<>>
                  ELSE floatLoop(Tail(json_list), properties, Append(floats, a[2]))
             ELSE IF IsDict(a)
             THEN IF Len(properties) = 0 THEN <<>>
                  ELSE LET dv == DictGet(a[2], properties[1])
                       IN  IF IsInt(dv)
                           THEN floatLoop(Tail(json_list), properties, Append(floats, dv[2]))
                           ELSE <<>>
             ELSE floatLoop(Tail(json_list), properties, floats)

getFloatValFromArray(json_list, properties) == floatLoop(json_list, properties, <<>>)

\* __getAggregationValues, lines 310-327: the floats of the view c
collectFloats(c, properties) ==
    IF IsList(c) THEN getFloatValFromArray(c[2], properties)
    ELSE IF IsDict(c)
    THEN IF Len(properties) = 0 THEN <<>>
         ELSE IF IsInt(DictGet(c[2], properties[1]))
              THEN <<DictGet(c[2], properties[1])[2]>>
              ELSE <<>>
    ELSE <<>>

withFloats(s, properties) == [s |-> s, floats |-> collectFloats(s.json_content, properties)]

\* __getAggregationValues: the object after the call and the floats
getAggregationValues(s, properties) ==
    withFloats(ifLimit(ifDistinct(prepare(s))), properties)

\* sum(), min(), max() of a list of numbers
RECURSIVE SumSeq(_)
SumSeq(q) == IF q = <<>> THEN 0 ELSE Head(q) + SumSeq(Tail(q))
MinSeq(q) == CHOOSE x \in {q[i] : i \in 1..Len(q)} : \A i \in 1..Len(q) : x <= q[i]
MaxSeq(q) == CHOOSE x \in {q[i] : i \in 1..Len(q)} : \A i \in 1..Len(q) : x >= q[i]

\* ---------------------------------------------------------- the methods
\* (a faulty variant: the path resolved against the root, not the working view)
FromRoot(s, node) ==
    IF IsNone(getNestedValue(s.root_json_content, node)) THEN Result(s, Raise("ValueError"))
    ELSE Result([s EXCEPT !.json_content = getNestedValue(s.root_json_content, node),
                          !.alias = [on |-> TRUE, path |-> node]],
                Self)

From(s, node) ==
    LET value == getNestedValue(s.json_content, node)
    IN  IF IsNone(value) THEN Result(s, Raise("ValueError"))
        ELSE Result([s EXCEPT !.json_content = value,
                              !.alias = IF s.alias.on
                                        THEN [on |-> TRUE, path |-> s.alias.path \o node]
                                        ELSE NoAlias],
                    Self)

Select(s, properties) ==
    Result([s EXCEPT !.attributes = s.attributes \o properties], Self)

\* return self.__json_content
returnContent(s) == Result(s, s.json_content)

\* (a faulty variant: the limit applied before the offset)
GetLimitFirst(s) == returnContent(ifDropped(ifOffset(ifLimit(prepare(s)))))

Get(s) == returnContent(ifDropped(ifLimit(ifOffset(prepare(s)))))

\* a Query is [key, operator, value]; self.__queries[i] is queries[i + 1]
Where(s, query) ==
    IF s.query_index = 0 /\ Len(s.queries) = 0
    THEN Result([s EXCEPT !.queries = Append(s.queries, <<query>>)], Self)
    ELSE IF s.query_index < Len(s.queries)
         THEN Result([s EXCEPT !.queries[s.query_index + 1] =
                                   Append(s.queries[s.query_index + 1], query)],
                     Self)
         ELSE Result(s, Raise("IndexError"))

OrWhere(s, query) ==
    Result([s EXCEPT !.query_index = s.query_index + 1,
                     !.queries = Append(s.queries, <<query>>)],
           Self)

\* Find: Get() runs when From() did not raise
thenGet(r) == IF Raised(r.ret) THEN r ELSE Get(r.s)

Find(s, path) == thenGet(From(s, path))

Offset(s, n) == Result([s EXCEPT !.offset_records = n], Self)

Limit(s, n) == Result([s EXCEPT !.limit_records = n], Self)

\* sum(floats): the int 0 of an empty list, else a float
sumOf(r) == Result(r.s, IF r.floats = <<>> THEN Num(0) ELSE Float(SumSeq(r.floats)))

Sum(s, properties) == sumOf(getAggregationValues(s, properties))

\* len(json_content) of a list or dict
lenOf(c) ==
    IF IsList(c) THEN Num(Len(c[2]))
    ELSE IF IsDict(c) THEN Num(Cardinality(DOMAIN c[2]))
    ELSE Null

returnLen(s) == Result(s, lenOf(s.json_content))

Count(s) == returnLen(prepare(s))

\* min(floats)
minOf(r) ==
    Result(r.s, IF r.floats = <<>> THEN Raise("ValueError") ELSE Float(MinSeq(r.floats)))

Min(s, properties) == minOf(getAggregationValues(s, properties))

\* max(floats)
maxOf(r) ==
    Result(r.s, IF r.floats = <<>> THEN Raise("ValueError") ELSE Float(MaxSeq(r.floats)))

Max(s, properties) == maxOf(getAggregationValues(s, properties))

\* sum(floats) / len(floats)
avgOf(r) ==
    Result(r.s, IF r.floats = <<>> THEN Raise("ZeroDivisionError")
                ELSE Ratio(SumSeq(r.floats), Len(r.floats)))

Avg(s, properties) == avgOf(getAggregationValues(s, properties))

\* json_content[index] with Python's negative indices, None off a list
itemOf(c, index) ==
    IF IsList(c)
    THEN IF 0 <= index /\ index < Len(c[2]) THEN c[2][index + 1]
         ELSE IF index < 0 /\ -index <= Len(c[2])
              THEN c[2][Len(c[2]) + index + 1]
              ELSE Raise("IndexError")
    ELSE Null

returnItem(s, index) == Result(s, itemOf(s.json_content, index))

First(s) == returnItem(prepare(s), 0)

Last(s) == returnItem(prepare(s), -1)

Nth(s, index) == returnItem(prepare(s), index)


\* GroupBy, the loop (lines 207-216): ok is FALSE on the early return
RECURSIVE groupByLoop(_, _, _)
groupByLoop(json_list, attr, dt) ==
    IF json_list = <<>> THEN [ok |-> TRUE, dt |-> dt]
    ELSE LET a == Head(json_list)
             value == getNestedValue(a, attr)
             k == PyStr(value)
         IN  IF IsDict(a)
             THEN IF IsNone(value) THEN [ok |-> FALSE, dt |-> dt]
                  ELSE IF k \notin DOMAIN dt
                       THEN groupByLoop(Tail(json_list), attr, DictSet(dt, k, List(<<a>>)))
                       ELSE groupByLoop(Tail(json_list), attr,
                                        DictSet(dt, k, List(Append(dt[k][2], a))))
             ELSE groupByLoop(Tail(json_list), attr, dt)

\* GroupBy, lines 204-216 on the view c
groupOf(c, attr) ==
    IF IsList(c) THEN groupByLoop(c[2], attr, EmptyFn)
    ELSE [ok |-> TRUE, dt |-> EmptyFn]

\* GroupBy, lines 212 and 218: the early return keeps the view
groupEnd(s, r) ==
    IF r.ok THEN Result(Rebind(s, Dict(r.dt)), Self)
    ELSE Result(s, Self)

grouped(s, attr) == groupEnd(s, groupOf(s.json_content, attr))

GroupBy(s, attr) == grouped(prepare(s), attr)

Distinct(s, attr) == Result([s EXCEPT !.distinct_property = attr], Self)

\* a caller's key function for Sort, total on every value: the number held
\* under "k", the number itself, else 0
KeyFunc(a) ==
    IF IsInt(a) THEN a[2]
    ELSE IF IsDict(a) /\ IsInt(DictGet(a[2], "k")) THEN DictGet(a[2], "k")[2]
    ELSE 0

\* the stable sort of list.sort and sorted over integer keys: an element goes
\* behind the elements that may stay in front of it
RECURSIVE InsertSorted(_, _, _, _)
InsertSorted(sorted, a, keys, reverse) ==
    IF sorted = <<>> THEN <<a>>
    ELSE LET h == Head(sorted)
             stays == IF reverse THEN keys[h] >= keys[a] ELSE keys[h] <= keys[a]
         IN  IF stays THEN <<h>> \o InsertSorted(Tail(sorted), a, keys, reverse)
             ELSE <<a>> \o sorted

RECURSIVE SortIndices(_, _, _)
SortIndices(n, keys, reverse) ==
    IF n = 0 THEN <<>>
    ELSE InsertSorted(SortIndices(n - 1, keys, reverse), n, keys, reverse)

StableSort(q, keys, reverse) ==
    LET idx == SortIndices(Len(q), keys, reverse)
    IN  [i \in 1..Len(q) |-> q[idx[i]]]

\* Sort with the key function KeyFunc: list.sort() sorts the list object
sortList(s, reverse) ==
    IF IsList(s.json_content)
    THEN Result(InPlace(s, List(StableSort(s.json_content[2],
                    [i \in 1..Len(s.json_content[2]) |-> KeyFunc(s.json_content[2][i])],
                    reverse))),
                Self)
    ELSE Result(s, Self)

Sort(s, reverse) == sortList(prepare(s), reverse)

\* the place of a string among the strings of the model's documents
StrRank(x) == IF x = "1" THEN 1 ELSE 2

\* SortBy: itemgetter(attr) needs a dict holding attr, and the values must
\* be ordered by <, which the numbers are among themselves
SortBy(s, attr, reverse) ==
    LET c == s.json_content
    IN  IF IsList(c)
        THEN IF \E i \in 1..Len(c[2]) : ~IsDict(c[2][i]) THEN Result(s, Raise("TypeError"))
             ELSE IF \E i \in 1..Len(c[2]) : attr \notin DOMAIN c[2][i][2]
                  THEN Result(s, Raise("KeyError"))
             ELSE IF Len(c[2]) > 1 /\ \E i \in 1..Len(c[2]) : ~IsInt(c[2][i][2][attr])
                  THEN IF \A i \in 1..Len(c[2]) : IsStr(c[2][i][2][attr])
                       THEN Result(Rebind(s, List(StableSort(c[2],
                                [i \in 1..Len(c[2]) |-> StrRank(c[2][i][2][attr][2])], reverse))),
                                   Self)
                       ELSE Result(s, Raise("TypeError"))
             ELSE Result(Rebind(s, List(StableSort(c[2],
                                   [i \in 1..Len(c[2]) |-> c[2][i][2][attr][2]], reverse))),
                         Self)
        ELSE Result(s, Self)

\* (a faulty variant: the limit, the offset and the distinct key survive, as in More)
ResetKeepsCounters(s) ==
    Result([s EXCEPT !.json_content = s.root_json_content,
                     !.alias = RootAlias,
                     !.queries = <<>>,
                     !.attributes = <<>>,
                     !.dropped_properties = <<>>,
                     !.query_index = 0],
           Self)

Reset(s) ==
    Result([s EXCEPT !.json_content = s.root_json_content,
                     !.alias = RootAlias,
                     !.queries = <<>>,
                     !.attributes = <<>>,
                     !.dropped_properties = <<>>,
                     !.query_index = 0,
                     !.limit_records = 0,
                     !.offset_records = 0,
                     !.distinct_property = <<>>],
           Self)

Only(s, properties) ==
    Result(prepare([s EXCEPT !.attributes = s.attributes \o properties]), Self)

\* Pluck, the loop (lines 267-271): attr is a key of the element itself
RECURSIVE pluckLoop(_, _)
pluckLoop(json_list, attr) ==
    IF json_list = <<>> THEN <<>>
    ELSE LET a == Head(json_list)
         IN  (IF IsDict(a) /\ ~IsNone(DictGet(a[2], attr)) THEN <<a[2][attr]>> ELSE <<>>)
                 \o pluckLoop(Tail(json_list), attr)

plucked(s, attr) ==
    Result(s, IF IsList(s.json_content)
              THEN List(pluckLoop(s.json_content[2], attr))
              ELSE List(<<>>))

Pluck(s, attr) == plucked(ifLimit(ifDistinct(prepare(s))), attr)

\* Out: func is the caller's transform, here the one that hands its
\* argument back
Out(s) == Result(s, s.json_content)

\* (a faulty variant: the first registration of a name wins, setdefault)
MacroKeepsFirst(s, operator, func) ==
    Result([s EXCEPT !.query_map = IF operator \in DOMAIN s.query_map THEN @
                                   ELSE DictSet(@, operator, func)],
           Self)

Macro(s, operator, func) ==
    Result([s EXCEPT !.query_map = DictSet(s.query_map, operator, func)], Self)

\* the mutable containers an object holds: two objects holding the same
\* container see each other's in-place changes of it
Containers ==
    {"root_json_content", "queries", "attributes", "dropped_properties", "query_map"}

\* (a faulty variant: copy.copy(self), whose fields are the containers of self)
shallowcopy(s) == [obj |-> s, shares |-> Containers]

\* deepcopy(self): an equal object that shares no container with self and
\* keeps the references inside it (the view being its own root or not)
deepcopy(s) == [obj |-> s, shares |-> {}]

\* Copy, line 284: the copy is reset and returned
copyReset(s, c) == [s |-> s, ret |-> Reset(c.obj).s, shares |-> c.shares]

Copy(s) == copyReset(s, deepcopy(s))

\* More, lines 287-294, r being what self.Get() gave
commit(r) ==
    Result([r.s EXCEPT !.root_json_content = r.ret,
                       !.alias = RootAlias,
                       !.queries = <<>>,
                       !.attributes = <<>>,
                       !.dropped_properties = <<>>,
                       !.stray = [queryIndex |-> 0, limitRecords |-> 0,
                                  distinctProperty |-> ""]],
           Self)

More(s) == commit(Get(s))

Drop(s, properties) ==
    Result([s EXCEPT !.dropped_properties = s.dropped_properties \o properties], Self)


\* ------------------------------------------------------------- the inputs
\* documents: a sequence of mappings and a number, out of order under "k",
\* with str(1) = str("1") among the values of "k" and an element without
\* "k"; a sequence of mappings that all hold a numeric "k" and "v"; and a
\* mapping holding such a sequence under "a"
Rows1 == <<Dict(KV2("k", Num(2), "v", Num(1))),
           Dict(KV2("k", Num(1), "v", Num(2))),
           Dict(KV("k", Str("1"))),
           Num(3)>>
Rows2 == <<Dict(KV2("k", Num(2), "v", Num(1))),
           Dict(KV2("k", Num(1), "v", Num(1))),
           Dict(KV2("k", Num(2), "v", Num(2)))>>
Docs == {List(Rows1), List(Rows2), Dict(KV2("a", List(Rows2), "n", Null))}

Query(key, operator, value) == [key |-> key, operator |-> operator, value |-> value]
Clauses == {Query(<<"k">>, "=", Num(1)), Query(<<"v">>, "!=", Num(1)),
            Query(<<"k">>, "odd", Num(1))}
Attrs == {[node |-> <<"k">>, as |-> ""], [node |-> <<"v">>, as |-> "k"]}
Paths == {<<"k">>, <<"v">>}
Nodes == {<<"a">>, <<"n">>, <<"2">>}
Offsets == {-1, 1, 2}
Limits == {1, 3}
Macros == {<<"odd", "isInt">>, <<"=", "never">>}
PropArgs == {<<>>, <<"v">>}

\* -------------------------------------------------------- the state machine
VARIABLES
    objs,   \* the JsonQuery objects alive: the first, and its copy once made
    shared, \* the containers the two objects hold in common
    op,     \* the last call: [name, obj, arg]
    ret,    \* what the last call returned or raised
    nops    \* calls made so far

vars == <<objs, shared, op, ret, nops>>

NoOp == [name |-> "init", obj |-> 0, arg |-> <<>>]

Init ==
    /\ \E doc \in Docs : objs = <<NewJsonQuery(doc)>>
    /\ shared = {}
    /\ op = NoOp
    /\ ret = Null
    /\ nops = 0

\* the object `other` once the object `acted` has changed, in place, the
\* containers F the two hold in common; a view that is an alias of the
\* root follows the root
Synced(other, acted, F) ==
    [f \in DOMAIN other |->
        IF f \in F THEN acted[f]
        ELSE IF f = "json_content" /\ "root_json_content" \in F /\ other.alias.on
             THEN getNestedValue(acted.root_json_content, other.alias.path)
             ELSE other[f]]

\* a call of method `name` on object i giving the result r
Call(i, name, arg, r) ==
    /\ nops < MaxOps
    /\ objs' = [j \in DOMAIN objs |-> IF j = i THEN r.s ELSE Synced(objs[j], r.s, shared)]
    /\ shared' = shared
    /\ op' = [name |-> name, obj |-> i, arg |-> arg]
    /\ ret' = r.ret
    /\ nops' = nops + 1

\* the objects a call can be made on
ObjIds == 1..Len(objs)

CallFrom ==
    \E i \in ObjIds, node \in Nodes : Call(i, "From", <<node>>, From(objs[i], node))
CallSelect ==
    \E i \in ObjIds, a \in Attrs : Call(i, "Select", <<a>>, Select(objs[i], <<a>>))
CallGet ==
    \E i \in ObjIds : Call(i, "Get", <<>>, Get(objs[i]))
CallWhere ==
    \E i \in ObjIds, q \in Clauses : Call(i, "Where", <<q>>, Where(objs[i], q))
CallOrWhere ==
    \E i \in ObjIds, q \in Clauses : Call(i, "OrWhere", <<q>>, OrWhere(objs[i], q))
CallFind ==
    \E i \in ObjIds, node \in Nodes : Call(i, "Find", <<node>>, Find(objs[i], node))
CallOffset ==
    \E i \in ObjIds, n \in Offsets : Call(i, "Offset", <<n>>, Offset(objs[i], n))
CallLimit ==
    \E i \in ObjIds, n \in Limits : Call(i, "Limit", <<n>>, Limit(objs[i], n))
CallSum ==
    \E i \in ObjIds, p \in PropArgs : Call(i, "Sum", <<p>>, Sum(objs[i], p))
CallCount ==
    \E i \in ObjIds : Call(i, "Count", <<>>, Count(objs[i]))
CallMin ==
    \E i \in ObjIds, p \in PropArgs : Call(i, "Min", <<p>>, Min(objs[i], p))
CallMax ==
    \E i \in ObjIds, p \in PropArgs : Call(i, "Max", <<p>>, Max(objs[i], p))
CallAvg ==
    \E i \in ObjIds, p \in PropArgs : Call(i, "Avg", <<p>>, Avg(objs[i], p))
CallFirst ==
    \E i \in ObjIds : Call(i, "First", <<>>, First(objs[i]))
CallLast ==
    \E i \in ObjIds : Call(i, "Last", <<>>, Last(objs[i]))
CallNth ==
    \E i \in ObjIds, n \in {1} : Call(i, "Nth", <<n>>, Nth(objs[i], n))
CallGroupBy ==
    \E i \in ObjIds, a \in Paths : Call(i, "GroupBy", <<a>>, GroupBy(objs[i], a))
CallDistinct ==
    \E i \in ObjIds, a \in Paths : Call(i, "Distinct", <<a>>, Distinct(objs[i], a))
CallSort ==
    \E i \in ObjIds, rev \in BOOLEAN : Call(i, "Sort", <<rev>>, Sort(objs[i], rev))
CallSortBy ==
    \E i \in ObjIds, rev \in BOOLEAN : Call(i, "SortBy", <<"k", rev>>, SortBy(objs[i], "k", rev))
CallReset ==
    \E i \in ObjIds : Call(i, "Reset", <<>>, Reset(objs[i]))
CallOnly ==
    \E i \in ObjIds, a \in Attrs : Call(i, "Only", <<a>>, Only(objs[i], <<a>>))
CallPluck ==
    \E i \in ObjIds : Call(i, "Pluck", <<"k">>, Pluck(objs[i], "k"))
CallOut ==
    \E i \in ObjIds : Call(i, "Out", <<>>, Out(objs[i]))
CallMacro ==
    \E i \in ObjIds, m \in Macros : Call(i, "Macro", m, Macro(objs[i], m[1], m[2]))
\* More: Get() works on the containers held so far, then the root is bound
\* to what it returned, a container this object holds alone
CallMore ==
    \E i \in ObjIds :
        /\ nops < MaxOps
        /\ objs' = [j \in DOMAIN objs |->
                       IF j = i THEN More(objs[i]).s
                       ELSE Synced(Synced(objs[j], Get(objs[i]).s, shared),
                                   More(objs[i]).s, shared \ {"root_json_content"})]
        /\ shared' = shared \ {"root_json_content"}
        /\ op' = [name |-> "More", obj |-> i, arg |-> <<>>]
        /\ ret' = More(objs[i]).ret
        /\ nops' = nops + 1
CallDrop ==
    \E i \in ObjIds, a \in Paths : Call(i, "Drop", <<a>>, Drop(objs[i], <<a>>))

\* Copy: the object returned joins the objects alive; one copy is followed
CallCopy ==
    \E i \in ObjIds :
        /\ nops < MaxOps
        /\ Len(objs) = 1
        /\ objs' = Append([objs EXCEPT ![i] = Synced(Copy(objs[i]).s, Copy(objs[i]).ret,
                                                    Copy(objs[i]).shares)],
                          Copy(objs[i]).ret)
        /\ shared' = Copy(objs[i]).shares
        /\ op' = [name |-> "Copy", obj |-> i, arg |-> <<>>]
        /\ ret' = <<"obj", Len(objs) + 1>>
        /\ nops' = nops + 1

Next ==
    \/ CallFrom \/ CallSelect \/ CallGet \/ CallWhere \/ CallOrWhere
    \/ CallFind \/ CallOffset \/ CallLimit \/ CallSum \/ CallCount
    \/ CallMin \/ CallMax \/ CallAvg \/ CallFirst \/ CallLast
    \/ CallNth \/ CallGroupBy \/ CallDistinct \/ CallSort \/ CallSortBy
    \/ CallReset \/ CallOnly \/ CallPluck \/ CallOut \/ CallMacro
    \/ CallCopy \/ CallMore \/ CallDrop

Spec == Init /\ [][Next]_vars


\* ------------------------------------------------ the pipeline on its own
\* A second specification starts from the objects a chain of builder calls
\* leaves behind, so that every pending state meets every terminal: a chain
\* of Where / OrWhere calls, then Distinct, Select, Offset, Limit and Drop.
WhereStep(s, step) ==
    IF step[1] = "Where" THEN Where(s, step[2]) ELSE OrWhere(s, step[2])

RECURSIVE RunChain(_, _)
RunChainRest(r, chain) == IF Raised(r.ret) THEN r ELSE RunChain(r.s, chain)

RunChain(s, chain) ==
    IF chain = <<>> THEN Result(s, Self)
    ELSE RunChainRest(WhereStep(s, Head(chain)), Tail(chain))

Steps == {"Where", "OrWhere"} \X Clauses

\* the chains of up to two calls, and two longer ones giving two groups of
\* two clauses
LongChains ==
    {<<<<"Where", Query(<<"k">>, "=", Num(1))>>, <<"Where", Query(<<"v">>, "!=", Num(1))>>,
       <<"OrWhere", Query(<<"k">>, "!=", Num(1))>>, <<"Where", Query(<<"v">>, "=", Num(1))>>>>,
     <<<<"Where", Query(<<"v">>, "=", Num(1))>>, <<"Where", Query(<<"k">>, "=", Num(2))>>,
       <<"OrWhere", Query(<<"v">>, "=", Num(2))>>, <<"Where", Query(<<"k">>, "odd", Num(1))>>>>}
Chains == (UNION {[1..n -> Steps] : n \in 0..2}) \cup LongChains

Built(doc, chain, d, attrs, off, lim, drops) ==
    Drop(Limit(Offset(Select(Distinct(RunChain(NewJsonQuery(doc), chain).s, d).s,
                             attrs).s, off).s, lim).s, drops).s

AttrLists == {<<>>} \cup {<<a>> : a \in Attrs} \cup {<<a, b>> : a \in Attrs, b \in Attrs}

InitPipe ==
    /\ \E doc \in Docs, chain \in Chains, d \in {<<>>, <<"k">>}, attrs \in AttrLists,
          off \in {0} \cup Offsets, lim \in {0} \cup Limits, drops \in {<<>>, <<<<"v">>>>} :
            /\ ~Raised(RunChain(NewJsonQuery(doc), chain).ret)
            /\ objs = <<Built(doc, chain, d, attrs, off, lim, drops)>>
    /\ shared = {}
    /\ op = NoOp
    /\ ret = Null
    /\ nops = 0

\* one terminal, or GroupBy, and then Get() again and again
NextPipe ==
    \/ CallGet
    \/ (nops = 0 /\ CallCount)
    \/ (nops = 0 /\ CallFirst)
    \/ (nops = 0 /\ CallLast)
    \/ (nops = 0 /\ CallNth)
    \/ (nops = 0 /\ CallSum)
    \/ (nops = 0 /\ CallMin)
    \/ (nops = 0 /\ CallMax)
    \/ (nops = 0 /\ CallAvg)
    \/ (nops = 0 /\ CallPluck)
    \/ (nops = 0 /\ CallOut)
    \/ (nops = 0 /\ CallGroupBy)

SpecPipe == InitPipe /\ [][NextPipe]_vars


\* ------------------------------------------------- what the steps are to do
\* The steps of the pipeline as the specification words them, each over the
\* rows of a sequence view, for the object s whose pending state applies.

\* the elements of rows at the indices I, in their order
PickRows(rows, I) ==
    [n \in 1..Cardinality(I) |->
        rows[CHOOSE i \in I : Cardinality({j \in I : j < i}) = n - 1]]

Resolves(e, node) == ~IsNone(getNestedValue(e, node))

AllRegistered(s) ==
    \A g \in 1..Len(s.queries) : \A c \in 1..Len(s.queries[g]) :
        s.queries[g][c].operator \in DOMAIN s.query_map

\* a clause is true when its path resolves and its predicate holds
ClauseTrue(s, e, q) ==
    /\ Resolves(e, q.key)
    /\ ApplyFunc(s.query_map[q.operator], getNestedValue(e, q.key), q.value)

\* OR over the groups of AND over the clauses, on mappings alone
Matches(s, e) ==
    /\ IsDict(e)
    /\ \E g \in 1..Len(s.queries) :
           \A c \in 1..Len(s.queries[g]) : ClauseTrue(s, e, s.queries[g][c])

Filtered(s, rows) == PickRows(rows, {i \in 1..Len(rows) : Matches(s, rows[i])})

\* an element holding the distinct key
Keyed(s, e) == IsDict(e) /\ Resolves(e, s.distinct_property)

\* the first element for each stringified key value
Deduplicated(s, rows) ==
    PickRows(rows,
        {i \in 1..Len(rows) :
            /\ Keyed(s, rows[i])
            /\ \A j \in 1..(i - 1) :
                   Keyed(s, rows[j]) =>
                       PyStr(getNestedValue(rows[j], s.distinct_property))
                           # PyStr(getNestedValue(rows[i], s.distinct_property))})

\* the requested attributes resolving on e, and the mapping they give: the
\* last attribute of an alias wins
Resolving(s, e) ==
    {n \in 1..Len(s.attributes) : Resolves(e, makeAlias(s.attributes[n])[1])}

Projection(s, e) ==
    [x \in {makeAlias(s.attributes[n])[2] : n \in Resolving(s, e)} |->
        getNestedValue(e,
            makeAlias(s.attributes[
                CHOOSE n \in Resolving(s, e) :
                    /\ makeAlias(s.attributes[n])[2] = x
                    /\ \A m \in Resolving(s, e) :
                           makeAlias(s.attributes[m])[2] = x => m <= n])[1])]

Projected(s, rows) ==
    LET kept == PickRows(rows, {i \in 1..Len(rows) : Resolving(s, rows[i]) # {}})
    IN  [i \in 1..Len(kept) |-> Dict(Projection(s, kept[i]))]

\* the rows from index n on (counted from 0), and the first n rows
From_n(rows, n) == PickRows(rows, {i \in 1..Len(rows) : i > n})
First_n(rows, n) == PickRows(rows, {i \in 1..Len(rows) : i <= n})

\* the fixed order of Get(): filter, distinct, projection, offset, limit
ExpFilter(s, rows) ==
    IF s.queries = <<>> THEN rows
    ELSE IF AllRegistered(s) THEN Filtered(s, rows) ELSE <<>>

ExpDistinct(s, rows) ==
    IF s.distinct_property = <<>> THEN rows ELSE Deduplicated(s, rows)

ExpProject(s, rows) ==
    IF s.attributes = <<>> THEN rows ELSE Projected(s, rows)

ExpOffset(s, rows) ==
    IF s.offset_records <= 0 THEN rows
    ELSE IF Len(rows) >= s.limit_records THEN From_n(rows, s.offset_records)
    ELSE <<>>

ExpLimit(s, rows) ==
    IF s.limit_records <= 0 THEN rows ELSE First_n(rows, s.limit_records)

\* every pending path removed, in the order of the drop list
RECURSIVE ExpDrop(_, _)
ExpDrop(v, dropped) ==
    IF dropped = <<>> THEN v
    ELSE ExpDrop(deleteNestedValue(v, Head(dropped)), Tail(dropped))

ExpPrepared(s, rows) == ExpProject(s, ExpDistinct(s, ExpFilter(s, rows)))

ExpGet(s, rows) ==
    ExpDrop(List(ExpLimit(s, ExpOffset(s, ExpPrepared(s, rows)))), s.dropped_properties)

\* ------------------------------------------------------------- the claims
\* the object a step acted on, before and after it
Before == objs[op'.obj]
After == objs'[op'.obj]
Acted(names) == op'.name \in names

\* C1: filtering a sequence view under a pending query whose operators are
\* all registered keeps exactly the mappings for which some group has every
\* clause true (a clause whose path does not resolve being false), drops
\* the other elements and keeps the order.  Count, First, Last and Nth run
\* the filter alone when no distinct key and no attribute is pending.
C1_FilterKeepsMatches ==
    [][(/\ Acted({"Count", "First", "Last", "Nth"})
        /\ IsList(Before.json_content)
        /\ Before.queries # <<>>
        /\ AllRegistered(Before)
        /\ Before.distinct_property = <<>>
        /\ Before.attributes = <<>>)
       => After.json_content = List(Filtered(Before, Before.json_content[2]))]_vars

\* C1 witness: two groups were pending over a sequence holding a number, and
\* the filter kept some mappings and dropped others
C1_Witness ==
    /\ op.name = "Count"
    /\ Len(objs[1].queries) = 2
    /\ AllRegistered(objs[1])
    /\ objs[1].distinct_property = <<>>
    /\ objs[1].attributes = <<>>
    /\ objs[1].root_json_content = List(Rows1)
    /\ Len(objs[1].json_content[2]) = 2

\* C2: Get() on a sequence view returns the view filtered, then
\* de-duplicated, then projected, then offset, then limited, then with the
\* dropped paths removed, each step applying when its pending state is set
C2_GetOrder ==
    [][(Acted({"Get"}) /\ IsList(Before.json_content))
       => /\ ret' = ExpGet(Before, Before.json_content[2])
          /\ After.json_content = ret']_vars

\* C2 witness: a Get() with all six kinds of pending state returned rows
C2_Witness ==
    /\ op.name = "Get"
    /\ nops = 1
    /\ objs[1].queries # <<>>
    /\ objs[1].distinct_property # <<>>
    /\ objs[1].attributes # <<>>
    /\ objs[1].offset_records # 0
    /\ objs[1].limit_records # 0
    /\ objs[1].dropped_properties # <<>>
    /\ IsList(ret)
    /\ ret[2] # <<>>


\* the fields of the object, `alias` (the identity of the view) aside
Fields ==
    {"root_json_content", "json_content", "query_map", "query_index", "offset_records",
     "limit_records", "queries", "dropped_properties", "attributes", "distinct_property",
     "stray"}

\* the step left the fields F of the object it acted on as they were
Kept(F) == \A f \in F : After[f] = Before[f]

\* the step left every other object as it was
OthersKept == \A j \in DOMAIN objs : j # op'.obj => objs'[j] = objs[j]

NothingPending(s) ==
    /\ s.queries = <<>>
    /\ s.attributes = <<>>
    /\ s.dropped_properties = <<>>
    /\ s.offset_records = 0
    /\ s.limit_records = 0
    /\ s.distinct_property = <<>>

\* queries with the clause q at the end of the last group
InLastGroup(queries, q) ==
    IF queries = <<>> THEN <<<<q>>>>
    ELSE [queries EXCEPT ![Len(queries)] = Append(@, q)]

\* C3 (as claimed): every Where appends its clause to the last group of the
\* pending query, every OrWhere appends a group holding its clause alone,
\* and neither call fails, whatever came before
C3_WhereAppendsToLastGroup ==
    [][/\ Acted({"Where"}) =>
             /\ ~Raised(ret')
             /\ After.queries = InLastGroup(Before.queries, op'.arg[1])
       /\ Acted({"OrWhere"}) =>
             /\ ~Raised(ret')
             /\ After.queries = Append(Before.queries, <<op'.arg[1]>>)]_vars

\* C4 (as claimed): no call but More changes the root of an object, so the
\* root stays the parsed input
C4_RootImmutable ==
    [][~Acted({"More"}) =>
          \A i \in DOMAIN objs : objs'[i].root_json_content = objs[i].root_json_content]_vars

\* C5 (as claimed): More() makes the root what Get() gives for the state
\* before it and clears all pending state, offset, limit and distinct key
\* included
C5_MoreClearsPending ==
    [][Acted({"More"}) =>
          /\ After.root_json_content = Get(Before).ret
          /\ NothingPending(After)]_vars

\* C6: Reset() makes the working view the root, empties the pending filter
\* groups, attributes and drop list, zeroes offset, limit and group index,
\* empties the distinct key, and leaves registry and root as they were
C6_Reset ==
    [][Acted({"Reset"}) =>
          /\ After.json_content = After.root_json_content
          /\ After.alias = RootAlias
          /\ NothingPending(After)
          /\ After.query_index = 0
          /\ Kept({"query_map", "root_json_content"})
          /\ OthersKept]_vars

\* C6 witness: a Reset() after a macro was registered kept the macro
C6_Witness ==
    /\ op.name = "Reset"
    /\ nops >= 2
    /\ "odd" \in DOMAIN objs[1].query_map
    /\ objs[1].json_content = objs[1].root_json_content
    /\ NothingPending(objs[1])

\* C7: Copy() returns a new object with a root equal to the source's, the
\* root as its working view, nothing pending and the registry of the source;
\* it leaves the source as it was, and no later call on one object changes
\* the other
C7_CopyIndependent ==
    [][/\ Acted({"Copy"}) =>
             /\ Len(objs') = Len(objs) + 1
             /\ objs'[Len(objs')].root_json_content = Before.root_json_content
             /\ objs'[Len(objs')].json_content = objs'[Len(objs')].root_json_content
             /\ objs'[Len(objs')].alias = RootAlias
             /\ NothingPending(objs'[Len(objs')])
             /\ objs'[Len(objs')].query_index = 0
             /\ objs'[Len(objs')].query_map = Before.query_map
             /\ After = Before
       /\ OthersKept]_vars

\* C7 witness: a Sort() on the copy reordered the copy's root and left the
\* source's root as parsed
C7_Witness ==
    /\ Len(objs) = 2
    /\ op.name = "Sort"
    /\ op.obj = 2
    /\ objs[1].root_json_content = List(Rows1)
    /\ objs[2].root_json_content # List(Rows1)

\* the terminals, and what each computes from the view c it finds
Terminals ==
    {"Get", "Count", "First", "Last", "Nth", "Sum", "Min", "Max", "Avg", "Pluck", "Out"}

\* the object s with its sequence view prepared as specified
Prepared(s) == [s EXCEPT !.json_content = List(ExpPrepared(s, s.json_content[2]))]

TerminalOf(o, s) ==
    CASE o.name = "Get" -> ExpGet(s, s.json_content[2])
      [] o.name = "Count" -> lenOf(Prepared(s).json_content)
      [] o.name = "First" -> itemOf(Prepared(s).json_content, 0)
      [] o.name = "Last" -> itemOf(Prepared(s).json_content, -1)
      [] o.name = "Nth" -> itemOf(Prepared(s).json_content, o.arg[1])
      [] o.name = "Sum" -> sumOf(withFloats(ifLimit(ifDistinct(Prepared(s))), o.arg[1])).ret
      [] o.name = "Min" -> minOf(withFloats(ifLimit(ifDistinct(Prepared(s))), o.arg[1])).ret
      [] o.name = "Max" -> maxOf(withFloats(ifLimit(ifDistinct(Prepared(s))), o.arg[1])).ret
      [] o.name = "Avg" -> avgOf(withFloats(ifLimit(ifDistinct(Prepared(s))), o.arg[1])).ret
      [] o.name = "Pluck" -> plucked(ifLimit(ifDistinct(Prepared(s))), o.arg[1]).ret
      [] o.name = "Out" -> Prepared(s).json_content

\* C8 (as claimed): every terminal computes its result from the filtered,
\* de-duplicated and projected view, Out included
C8_TerminalsPrepare ==
    [][(Acted(Terminals) /\ IsList(Before.json_content))
       => ret' = TerminalOf(op', Before)]_vars

\* the accumulating builders and the pending state each one owns
Builders == {"Where", "OrWhere", "Select", "Only", "Distinct", "Offset", "Limit", "Drop"}

Owned(name) ==
    CASE name \in {"Where", "OrWhere"} -> {"queries", "query_index"}
      [] name \in {"Select", "Only"} -> {"attributes"}
      [] name = "Distinct" -> {"distinct_property"}
      [] name = "Offset" -> {"offset_records"}
      [] name = "Limit" -> {"limit_records"}
      [] name = "Drop" -> {"dropped_properties"}

\* C9 (as claimed): each accumulating builder changes its own pending state
\* alone, leaves root and working view as they were and returns the builder
C9_BuildersTouchPendingOnly ==
    [][Acted(Builders) =>
          /\ ret' = Self
          /\ Kept(Fields \ Owned(op'.name))
          /\ OthersKept]_vars

\* C10: From(path) makes the working view the value the path resolves to
\* against the working view and changes nothing else; when the path does
\* not resolve it raises and leaves every field as it was
C10_From ==
    [][Acted({"From"}) =>
          IF IsNone(getNestedValue(Before.json_content, op'.arg[1]))
          THEN Raised(ret') /\ objs' = objs
          ELSE /\ ret' = Self
               /\ After.json_content = getNestedValue(Before.json_content, op'.arg[1])
               /\ Kept(Fields \ {"json_content"})
               /\ OthersKept]_vars

\* C10 witness: a From() that resolved, followed by a From() that raised on
\* the view the first one gave
C10_Witness ==
    /\ op.name = "From"
    /\ Raised(ret)
    /\ objs[1].alias = [on |-> TRUE, path |-> <<"a">>]
    /\ objs[1].json_content = List(Rows2)

\* C11: Macro(name, fn) makes fn the registry's entry for name, a built-in
\* or an earlier registration included, and changes nothing else; no other
\* call changes the registry, and a filter evaluates each clause with the
\* entry its operator has in the registry at that time
C11_MacroLastWins ==
    [][/\ Acted({"Macro"}) =>
             /\ ret' = Self
             /\ DOMAIN After.query_map = DOMAIN Before.query_map \cup {op'.arg[1]}
             /\ After.query_map[op'.arg[1]] = op'.arg[2]
             /\ \A o \in DOMAIN Before.query_map \ {op'.arg[1]} :
                    After.query_map[o] = Before.query_map[o]
             /\ Kept(Fields \ {"query_map"})
             /\ After.alias = Before.alias
             /\ OthersKept
       /\ ~Acted({"Macro"}) => After.query_map = Before.query_map
       /\ (/\ Acted({"Count", "First", "Last", "Nth"})
           /\ IsList(Before.json_content)
           /\ Before.queries # <<>>
           /\ AllRegistered(Before)
           /\ Before.distinct_property = <<>>
           /\ Before.attributes = <<>>)
          => IsList(After.json_content) /\ After.json_content[2] =
                 PickRows(Before.json_content[2],
                     {i \in 1..Len(Before.json_content[2]) :
                         /\ IsDict(Before.json_content[2][i])
                         /\ \E g \in 1..Len(Before.queries) :
                                \A c \in 1..Len(Before.queries[g]) :
                                    /\ Resolves(Before.json_content[2][i],
                                                Before.queries[g][c].key)
                                    /\ ApplyFunc(Before.query_map[Before.queries[g][c].operator],
                                           getNestedValue(Before.json_content[2][i],
                                                          Before.queries[g][c].key),
                                           Before.queries[g][c].value)})]_vars

\* C11 witness: with the built-in "=" replaced by a macro that never holds,
\* a Count() under the clause k = 1 found no element where the built-in
\* finds one
C11_Witness ==
    /\ op.name = "Count"
    /\ objs[1].query_map["="] = "never"
    /\ objs[1].queries = <<<<Query(<<"k">>, "=", Num(1))>>>>
    /\ objs[1].root_json_content = List(Rows1)
    /\ ret = Num(0)

\* C12: distinct on a key over a sequence keeps, in their order, the first
\* element for each stringified value of the key and drops every element
\* on which the key does not resolve.  Count, First, Last and Nth run the
\* filter and then distinct when no attribute is pending.
C12_Distinct ==
    [][(/\ Acted({"Count", "First", "Last", "Nth"})
        /\ IsList(Before.json_content)
        /\ Before.distinct_property # <<>>
        /\ Before.attributes = <<>>)
       => After.json_content =
              List(Deduplicated(Before, ExpFilter(Before, Before.json_content[2])))]_vars

\* C12 witness: distinct on k kept the first two rows and dropped the row
\* whose k is the string of a value seen and the element that is a number
C12_Witness ==
    /\ op.name = "Count"
    /\ nops = 2
    /\ objs[1].distinct_property = <<"k">>
    /\ objs[1].queries = <<>>
    /\ objs[1].root_json_content = List(Rows1)
    /\ objs[1].json_content = List(<<Rows1[1], Rows1[2]>>)

\* C13: projection over a sequence gives, for each element in order, a
\* mapping holding exactly the requested attributes that resolve on it,
\* under their aliases, the later of two attributes with one alias winning,
\* and omits every element on which no requested attribute resolves.
\* Count, First, Last and Nth run filter, distinct and then the projection.
C13_Projection ==
    [][(/\ Acted({"Count", "First", "Last", "Nth"})
        /\ IsList(Before.json_content)
        /\ Before.attributes # <<>>)
       => After.json_content =
              List(Projected(Before,
                       ExpDistinct(Before, ExpFilter(Before, Before.json_content[2]))))]_vars

\* C13 witness: the projection "v as k" gave one mapping for each of the
\* two rows holding v and omitted the row without v and the number
C13_Witness ==
    /\ op.name = "Count"
    /\ nops = 2
    /\ objs[1].attributes = <<[node |-> <<"v">>, as |-> "k"]>>
    /\ objs[1].root_json_content = List(Rows1)
    /\ objs[1].json_content = List(<<Dict(KV("k", Num(1))), Dict(KV("k", Num(2)))>>)

\* the index of the first element on which a clause of an unregistered
\* operator is met, which is the first mapping: every clause of every group
\* is looked up on each mapping before any outcome is used
MetAt(rows) ==
    IF \E i \in 1..Len(rows) : IsDict(rows[i])
    THEN CHOOSE i \in 1..Len(rows) :
             IsDict(rows[i]) /\ \A j \in 1..(i - 1) : ~IsDict(rows[j])
    ELSE Len(rows) + 1

\* C14: with a pending clause whose operator is not in the registry, the
\* filter gives what it had accumulated before the element on which the
\* clause is met, that element and all after it skipped, and raises
\* nothing: Count() returns the length of that list
C14_UnknownOperator ==
    [][(/\ Acted({"Count", "First", "Last", "Nth"})
        /\ IsList(Before.json_content)
        /\ Before.queries # <<>>
        /\ ~AllRegistered(Before)
        /\ Before.distinct_property = <<>>
        /\ Before.attributes = <<>>)
       => /\ After.json_content =
                 List(Filtered(Before, SubSeq(Before.json_content[2], 1,
                                              MetAt(Before.json_content[2]) - 1)))
          /\ Acted({"Count"}) => ret' = Num(Len(After.json_content[2]))]_vars

\* C14 witness: under k = 1 or k odd 1, odd not registered, Count() over
\* rows of which one holds k = 1 returned 0
C14_Witness ==
    /\ op.name = "Count"
    /\ "odd" \notin DOMAIN objs[1].query_map
    /\ objs[1].queries = <<<<Query(<<"k">>, "=", Num(1))>>, <<Query(<<"k">>, "odd", Num(1))>>>>
    /\ objs[1].root_json_content = List(Rows1)
    /\ objs[1].json_content = List(<<>>)
    /\ ret = Num(0)

\* the offset step on rows, for the offset counter n and the limit
\* counter L: nothing for n <= 0, else the rows from index n on when
\* there are at least L of them, and no row otherwise
OffsetStep(n, L, rows) ==
    CASE n < 0 -> rows
      [] n = 0 -> rows
      [] n > 0 /\ Len(rows) >= L -> PickRows(rows, {i \in 1..Len(rows) : i > n})
      [] n > 0 /\ Len(rows) < L -> <<>>

\* C15: at Get() the offset step leaves the prepared view as it is for an
\* offset counter n <= 0; for n > 0 it keeps the elements from index n on
\* when the view holds at least as many elements as the limit counter L,
\* and empties the view otherwise; the limit step follows (no drop pending)
C15_OffsetAgainstLimit ==
    [][(/\ Acted({"Get"})
        /\ IsList(Before.json_content)
        /\ Before.dropped_properties = <<>>)
       => ret' = List(ExpLimit(Before,
                          OffsetStep(Before.offset_records, Before.limit_records,
                                     ExpPrepared(Before, Before.json_content[2]))))]_vars

\* C15 witness: with offset 1 and limit 3 over the two rows a projection
\* left of four, the first Get() returned the empty sequence
C15_Witness ==
    /\ op.name = "Get"
    /\ nops = 1
    /\ objs[1].offset_records = 1
    /\ objs[1].limit_records = 3
    /\ objs[1].queries = <<>>
    /\ objs[1].distinct_property = <<>>
    /\ objs[1].attributes = <<[node |-> <<"v">>, as |-> "k"]>>
    /\ objs[1].root_json_content = List(Rows1)
    /\ ret = List(<<>>)

\* the elements of rows that are mappings, and whether attr resolves on all
AllResolve(rows, attr) ==
    \A i \in 1..Len(rows) : IsDict(rows[i]) => Resolves(rows[i], attr)

\* the mapping from each stringified value of attr to the mappings of rows
\* holding it, in their order
Grouping(rows, attr) ==
    [x \in {PyStr(getNestedValue(rows[i], attr)) : i \in {j \in 1..Len(rows) : IsDict(rows[j])}} |->
        List(PickRows(rows, {i \in 1..Len(rows) :
                                /\ IsDict(rows[i])
                                /\ PyStr(getNestedValue(rows[i], attr)) = x}))]

\* what GroupBy(attr) is to make of the view, rows being the prepared rows
GroupByOf(view, rows, attr) ==
    IF AllResolve(rows, attr) THEN Dict(Grouping(rows, attr)) ELSE view

\* C16 (as claimed): GroupBy(attr) on a sequence view groups the prepared
\* rows when attr resolves on each mapping among them; otherwise it leaves
\* the working view equal to what it was before the call; it raises nothing
C16_GroupByAllOrNothing ==
    [][(Acted({"GroupBy"}) /\ IsList(Before.json_content))
       => /\ ret' = Self
          /\ After.json_content =
                 GroupByOf(Before.json_content,
                           ExpPrepared(Before, Before.json_content[2]), op'.arg[1])]_vars

\* the rows an aggregation works on: the prepared view with distinct and
\* limit applied again when set
AggRows(s) == ExpLimit(s, ExpDistinct(s, ExpPrepared(s, s.json_content[2])))

\* the element e holds a number under the property p
HoldsNumber(e, p) == IsDict(e) /\ p \in DOMAIN e[2] /\ IsInt(e[2][p])

AllHoldNumber(rows, p) == \A i \in 1..Len(rows) : HoldsNumber(rows[i], p)

\* the sum of the property p over rows
RECURSIVE SumOver(_, _)
SumOver(rows, p) == IF rows = <<>> THEN 0 ELSE Head(rows)[2][p][2] + SumOver(Tail(rows), p)

\* what Sum(p) is to return over rows: the sum when every element holds a
\* number under p (sum() of no float being the int 0), else 0
SumOf(rows, p) ==
    IF rows # <<>> /\ AllHoldNumber(rows, p) THEN Float(SumOver(rows, p)) ELSE Num(0)

C18_GetIdempotent ==
    [][(Acted({"Get"}) /\ op.name = "Get" /\ op.obj = op'.obj)
       => /\ ret' = ret
          /\ After.json_content = Before.json_content]_vars

\* C19 (as claimed): a Get() that directly follows a GroupBy() which built
\* a grouped mapping returns that mapping, whatever filters, distinct key
\* and attributes were pending before the GroupBy()
C19_GetAfterGroupBy ==
    [][(/\ Acted({"Get"})
        /\ op.name = "GroupBy"
        /\ op.obj = op'.obj
        /\ IsDict(Before.json_content)
        /\ DOMAIN Before.json_content[2] # {}
        /\ Before.dropped_properties = <<>>)
       => /\ ret' = Before.json_content
          /\ After.json_content = Before.json_content]_vars

=============================================================================
